---- MODULE Spec2Model ----
(***************************************************************************)
(* A model of h-baselines' on-policy driver (hbaselines/trpo/algorithm.py, *)
(* class RLAlgorithm) and of the update engine of the SAC feed-forward     *)
(* policy (hbaselines/fcnet/sac.py, class FeedForwardPolicy).              *)
(*                                                                         *)
(* Numbers.  Rewards, value predictions and parameters are integers;       *)
(* gamma, lam, tau and everything computed from them are exact rationals   *)
(* <<numerator, denominator>> in lowest terms with a positive denominator, *)
(* so that equalities between advantages or averaged parameters are equal- *)
(* ities of normal forms.  float32 rounding is not modelled.               *)
(***************************************************************************)
EXTENDS Integers, Sequences, FiniteSets, TLC

(***************************************************************************)
(* Bounds of the model.                                                    *)
(***************************************************************************)
\* timesteps_per_batch ranges over 0..MaxBatch
MaxBatch == 2
\* total_timesteps ranges over -1..MaxTotal
MaxTotal == 3
\* learn() is called at most MaxLearnCalls times on one object
MaxLearnCalls == 2
\* a segment handed to the advantage estimator on its own has at most
\* GaeMaxLen steps
GaeMaxLen == 3
\* the replay buffer's buffer_size and batch_size range over 1..MaxBufferSize
MaxBufferSize == 2
\* store_transition and update are called at most MaxCalls times altogether
MaxCalls == 3
\* a batch fed to the loss tensors has at most LossBatch rows
LossBatch == 2
\* an action space has at most AcDim dimensions
AcDim == 2
\* the replay buffer on its own has a capacity of at most RbCapacity and
\* is added to RbAdds times at most
RbCapacity == 5
RbAdds == 6

(***************************************************************************)
(* Exact rational arithmetic.  The arithmetic is written as functions, the *)
(* arguments of which are evaluated once, with operators in front of them. *)
(***************************************************************************)
Abs(n) == IF n < 0 THEN -n ELSE n

GCDF[a \in Nat, b \in Nat] == IF b = 0 THEN a ELSE GCDF[b, a % b]

GCD(a, b) == GCDF[a, b]

RNormF[n \in Int, d \in Nat] ==
    LET g == GCDF[Abs(n), d] IN <<n \div g, d \div g>>

RNorm(n, d) == RNormF[n, d]

Rat(n) == <<n, 1>>

Rats == Int \X Nat

RAddF[a \in Rats, b \in Rats] ==
    RNormF[a[1] * b[2] + b[1] * a[2], a[2] * b[2]]

RAdd(a, b) == RAddF[a, b]

RSubF[a \in Rats, b \in Rats] ==
    RNormF[a[1] * b[2] - b[1] * a[2], a[2] * b[2]]

RSub(a, b) == RSubF[a, b]

RMulF[a \in Rats, b \in Rats] == RNormF[a[1] * b[1], a[2] * b[2]]

RMul(a, b) == RMulF[a, b]

RECURSIVE RPow(_, _)
RPow(a, k) == IF k = 0 THEN Rat(1) ELSE RMul(a, RPow(a, k - 1))

RECURSIVE SumSeq(_)
SumSeq(s) == IF Len(s) = 0 THEN 0 ELSE Head(s) + SumSeq(Tail(s))

(***************************************************************************)
(* The collaborators' value sets: what the environment and the policy may  *)
(* hand to the driver.                                                     *)
(***************************************************************************)
\* observations a segment may hold
Obs == {0, 1}
\* observations returned by env.reset() and env.step() of the environment
\* the driver samples from
EnvObs == {0}
\* rewards returned by env.step()
Rewards == {0, 1}
\* actions returned by policy_pi.compute_action(): one number per dimension
\* of the action space
Actions == {<<0, 2>>, <<-2, 0>>}
\* the value function policy_pi.value(), one value per observation
ValueFns == {[o \in Obs |-> o + 1], [o \in Obs |-> 1 - 2 * o]}
\* the pairs <<gamma, lam>> the estimator is applied with
GaeFactors == {<< <<1, 2>>, <<1, 3>> >>, << <<1, 1>>, <<1, 2>> >>}
\* the factors of the driver whose learn() is followed
DriverGamma == <<1, 2>>
DriverLam == <<1, 3>>

\* Python's None, and what an entry of an np.empty array stands for until
\* it is assigned
None == "None"
\* the action spaces of the environment: a Box with bounds, or a space
\* without bounds (Discrete)
ActionSpaces == {[is_box |-> TRUE, low |-> <<-1, -1>>, high |-> <<1, 1>>],
                 [is_box |-> FALSE, low |-> None, high |-> None]}

\* float('nan'), what numpy's mean gives for an empty list: 0/0
NaN == <<0, 0>>

VARIABLES
    \* ---- RLAlgorithm: the object's fields ----
    timesteps_per_batch,    \* self.timesteps_per_batch
    gamma,                  \* self.gamma
    lam,                    \* self.lam
    episodes_so_far,        \* self.episodes_so_far
    self_timesteps_so_far,  \* self.timesteps_so_far
    self_iters_so_far,      \* self.iters_so_far
    policy_value,           \* what self.policy_pi.value computes
    \* ---- learn(): argument, locals, position ----
    pc,                     \* where the driver is
    learn_calls,            \* number of learn() calls begun
    total_timesteps,        \* the argument of the running learn()
    iters_so_far,           \* learn's local iters_so_far
    timesteps_so_far,       \* learn's local timesteps_so_far
    seg,                    \* learn's local seg
    ignore_dones,           \* the ignore_dones argument of _add_vtarg_and_adv
    \* ---- _collect_samples(): locals ----
    n_samples, obs, observations, next_observations, rewards, dones, actions,
    cur_ep_ret, current_ep_len, ep_rets, ep_lens,
    \* ---- the environment and the log file ----
    action_space,           \* env.action_space
    env_ep_steps,           \* env.step() calls since the last env.reset()
    call_env_steps,         \* env.step() calls since the running learn() began
    env_resets,             \* env.reset() calls of the running
                            \* _collect_samples
    env_last_action,        \* <<a>>: the action given to env.step() last by
                            \* the running _collect_samples; <<>>: none yet
    stats,                  \* the stats dict of the last _log_training
    file_exists,            \* os.path.exists(train_filepath)
    train_csv,              \* the lines of train.csv written by this object
    \* ---- FeedForwardPolicy (SAC): constructor arguments ----
    buffer_size,            \* self.buffer_size, the replay buffer's capacity
    batch_size,             \* self.batch_size
    tau,                    \* the target update rate
    \* ---- the replay buffer ----
    rb_storage,             \* the stored transitions, by slot
    rb_next_idx,            \* the slot the next add() writes, from 0
    rb_added,               \* add() calls so far
    rb_samples,             \* sample() calls so far
    \* ---- the TensorFlow variables, one scalar per scope ----
    qf,                     \* model/qf_0 and model/qf_1 (as qf[1], qf[2])
    pi,                     \* model/pi
    log_alpha,              \* log_alpha
    target_qf,              \* target/qf_0 and target/qf_1
    \* ---- update(): position, locals, result ----
    sac_pc,                 \* where the policy's caller is
    update_calls,           \* update() calls begun
    batch,                  \* the slots of the batch drawn by update()
    pending,                \* the operations of step_ops the running
                            \* sess.run has not executed yet
    target_before,          \* target_qf when the running sess.run began
    update_ret,             \* <<critic_loss, actor_loss>> as returned last
    \* ---- the loss tensors of the graph, evaluated on their own ----
    feed,                   \* what the tensors are evaluated on: the batch
                            \* fed, the networks, the settings
    fetched,                \* the values of the tensors
    \* ---- FeedForwardPolicy: construction and the actor tensors ----
    ac_space,               \* the ac_space argument: shape[0], low, high
    layers,                 \* len(layers)
    built,                  \* how __init__ ended, "none" before it ran
    actor_out               \* actor_tf and log_pi as evaluated last, with
                            \* what they were evaluated on

fields == <<timesteps_per_batch, gamma, lam, episodes_so_far,
            self_timesteps_so_far, self_iters_so_far, policy_value>>
learn_vars == <<pc, learn_calls, total_timesteps, iters_so_far,
                timesteps_so_far, seg, ignore_dones>>
collect_vars == <<n_samples, obs, observations, next_observations, rewards,
                  dones, actions, cur_ep_ret, current_ep_len, ep_rets, ep_lens>>
env_vars ==
    <<action_space, env_ep_steps, call_env_steps, env_resets,
      env_last_action>>
log_vars == <<stats, file_exists, train_csv>>
driver_vars == <<fields, learn_vars, collect_vars, env_vars, log_vars>>
sac_args == <<buffer_size, batch_size, tau>>
rb_vars == <<rb_storage, rb_next_idx, rb_added, rb_samples>>
tf_vars == <<qf, pi, log_alpha, target_qf>>
update_vars == <<sac_pc, update_calls, batch, pending, target_before,
                 update_ret>>
loss_vars == <<feed, fetched>>
actor_vars == <<ac_space, layers, built, actor_out>>
graph_vars == <<loss_vars, actor_vars>>
sac_vars == <<sac_args, rb_vars, tf_vars, update_vars, graph_vars>>
vars == <<driver_vars, sac_vars>>

(***************************************************************************)
(* RLAlgorithm.__init__ and _create_env: the state after construction.     *)
(* A local of a call that is not running is 0, an empty list or one of the *)
(* records below; pc tells which locals are live.                          *)
(***************************************************************************)
\* no segment: learn's seg before _collect_samples has returned
NoSegment == [total_timestep |-> 0]
\* no stats dict: _log_training has not run in this iteration
NoStats == [epoch |-> 0]

NoLocals ==
    /\ n_samples = 0 /\ obs = 0
    /\ observations = <<>> /\ next_observations = <<>> /\ rewards = <<>>
    /\ dones = <<>> /\ actions = <<>>
    /\ cur_ep_ret = 0 /\ current_ep_len = 0
    /\ ep_rets = <<>> /\ ep_lens = <<>>

\* no feed, nothing fetched: the loss tensors are not being evaluated
NoFeed == [rows |-> <<>>]
NoFetched == [target_q |-> <<>>]

\* a policy object nothing has been done with, of one configuration
PolicyIdle ==
    /\ buffer_size = 1 /\ batch_size = 1 /\ tau = <<1, 2>>
    /\ rb_storage = <<>> /\ rb_next_idx = 0 /\ rb_added = 0 /\ rb_samples = 0
    /\ qf = <<Rat(0), Rat(0)>> /\ pi = Rat(0) /\ log_alpha = Rat(0)
    /\ target_qf = <<Rat(0), Rat(0)>>
    /\ sac_pc = "idle" /\ update_calls = 0 /\ batch = <<>> /\ pending = {}
    /\ target_before = <<Rat(0), Rat(0)>> /\ update_ret = <<>>

\* the actor tensors have not been evaluated
NoActorOut == [policy |-> <<>>]

\* a policy constructed for one action dimension, its actor tensors not
\* evaluated
ActorIdle ==
    /\ ac_space = [shape |-> 1, low |-> <<-1>>, high |-> <<1>>]
    /\ layers = 2
    /\ built = "constructed"
    /\ actor_out = NoActorOut

\* the same, its loss tensors not being evaluated
SacIdle ==
    /\ PolicyIdle
    /\ ActorIdle
    /\ feed = NoFeed /\ fetched = NoFetched

Init ==
    /\ SacIdle
    /\ timesteps_per_batch \in 0..MaxBatch
    /\ gamma = DriverGamma
    /\ lam = DriverLam
    /\ episodes_so_far = 0
    /\ self_timesteps_so_far = 0
    /\ self_iters_so_far = 0
    /\ policy_value = [o \in Obs |-> o + 1]
    /\ pc = "idle"
    /\ learn_calls = 0
    /\ total_timesteps = 0
    /\ iters_so_far = 0
    /\ timesteps_so_far = 0
    /\ seg = NoSegment
    /\ ignore_dones = FALSE
    /\ NoLocals
    /\ action_space \in ActionSpaces
    /\ env_ep_steps = 0
    /\ call_env_steps = 0
    /\ env_resets = 0
    /\ env_last_action = <<>>
    /\ stats = NoStats
    /\ file_exists = FALSE
    /\ train_csv = <<>>

(***************************************************************************)
(* learn(): lines 213-236.                                                 *)
(***************************************************************************)
\* the call, up to the first test of the loop: the budget counters are
\* locals and start at 0
Learn(total) ==
    /\ pc = "idle"
    /\ learn_calls < MaxLearnCalls
    /\ learn_calls' = learn_calls + 1
    /\ total_timesteps' = total
    /\ iters_so_far' = 0
    /\ timesteps_so_far' = 0
    /\ pc' = "while"
    /\ call_env_steps' = 0
    /\ UNCHANGED <<fields, seg, ignore_dones, collect_vars, action_space,
                   env_ep_steps, env_resets, env_last_action, log_vars>>
    /\ UNCHANGED sac_vars

\* the loop's test on the iteration count instead of the transition count
LoopTestIters == iters_so_far < total_timesteps

\* the loop's test: while timesteps_so_far < total_timesteps
LoopTest == timesteps_so_far < total_timesteps

\* a segment of no step never advances timesteps_so_far: the model follows
\* such a run for MaxTotal + 1 iterations
IterCap == timesteps_per_batch = 0 => iters_so_far <= MaxTotal

\* the test holds: the body starts with the call _collect_samples(
\* self.timesteps_per_batch)
LearnIterate ==
    /\ pc = "while"
    /\ LoopTest
    /\ IterCap
    /\ n_samples' = timesteps_per_batch
    /\ pc' = "collect_init"
    /\ UNCHANGED <<fields, learn_calls, total_timesteps, iters_so_far,
                   timesteps_so_far, seg, ignore_dones, obs, observations,
                   next_observations, rewards, dones, actions, cur_ep_ret,
                   current_ep_len, ep_rets, ep_lens, env_vars, log_vars>>
    /\ UNCHANGED sac_vars

\* the test fails: learn returns self
LearnReturn ==
    /\ pc = "while"
    /\ ~LoopTest
    /\ pc' = "idle"
    /\ total_timesteps' = 0
    /\ iters_so_far' = 0
    /\ timesteps_so_far' = 0
    /\ UNCHANGED <<fields, learn_calls, seg, ignore_dones, collect_vars,
                   env_vars, log_vars>>
    /\ UNCHANGED sac_vars

(***************************************************************************)
(* _collect_samples(): lines 260-316.                                      *)
(***************************************************************************)
\* lines 260-272: fresh history arrays and episode accumulators, and
\* obs = self.env.reset()
CollectInit ==
    /\ pc = "collect_init"
    /\ observations' = <<>>
    /\ next_observations' = <<>>
    /\ rewards' = <<>>
    /\ dones' = <<>>
    /\ actions' = <<>>
    /\ cur_ep_ret' = 0
    /\ current_ep_len' = 0
    /\ ep_rets' = <<>>
    /\ ep_lens' = <<>>
    /\ \E o \in EnvObs : obs' = o
    /\ env_ep_steps' = 0
    /\ env_resets' = 1
    /\ pc' = "collect_loop"
    /\ UNCHANGED <<fields, learn_calls, total_timesteps, iters_so_far,
                   timesteps_so_far, seg, ignore_dones, n_samples,
                   action_space, call_env_steps, env_last_action, log_vars>>
    /\ UNCHANGED sac_vars

\* the loop's test with <= for <: one transition too many
CollectMoreOffByOne == Len(observations) <= n_samples

\* line 274: while len(observations) < n_samples
CollectMore == Len(observations) < n_samples

\* np.clip(action, a_min=low, a_max=high)
Clip(a, low, high) ==
    [d \in DOMAIN a |->
        IF a[d] < low[d] THEN low[d] ELSE IF a[d] > high[d] THEN high[d]
        ELSE a[d]]

\* a driver that hands the policy's action to the environment as it is
ClippedActionAsGiven(action) == action

\* lines 278-283
ClippedAction(action) ==
    IF action_space.is_box
    THEN Clip(action, action_space.low, action_space.high)
    ELSE action

\* a loop that leaves the environment as it is when the episode ends with
\* the segment
EnvResetsUnlessLast(done) ==
    IF done /\ Len(observations) + 1 < n_samples THEN env_resets + 1
    ELSE env_resets

\* lines 300-305: self.env.reset() after a done, and only then
EnvResets(done) == IF done THEN env_resets + 1 ELSE env_resets

\* lines 274-305: one pass of the sampling loop.  The policy picks the
\* action, the environment the next observation, the reward, the done flag
\* and, after a done, the observation of the reset.
CollectStep ==
    /\ pc = "collect_loop"
    /\ CollectMore
    /\ call_env_steps' = call_env_steps + 1
    /\ \E action \in Actions, next_obs \in EnvObs, reward \in Rewards,
          done \in BOOLEAN, reset_obs \in EnvObs :
        /\ done = FALSE => reset_obs = next_obs
        /\ env_resets' = EnvResets(done)
        /\ env_last_action' = <<ClippedAction(action)>>
        /\ observations' = Append(observations, obs)
        /\ next_observations' = Append(next_observations, next_obs)
        /\ actions' = Append(actions, action)
        /\ rewards' = Append(rewards, reward)
        /\ dones' = Append(dones, done)
        /\ IF done
           THEN /\ ep_rets' = Append(ep_rets, cur_ep_ret + reward)
                /\ ep_lens' = Append(ep_lens, current_ep_len + 1)
                /\ cur_ep_ret' = 0
                /\ current_ep_len' = 0
                /\ obs' = reset_obs
                /\ env_ep_steps' = 0
           ELSE /\ ep_rets' = ep_rets
                /\ ep_lens' = ep_lens
                /\ cur_ep_ret' = cur_ep_ret + reward
                /\ current_ep_len' = current_ep_len + 1
                /\ obs' = next_obs
                /\ env_ep_steps' = env_ep_steps + 1
    /\ UNCHANGED <<fields, learn_vars, n_samples, action_space, log_vars>>
    /\ UNCHANGED sac_vars

AfterEnvErrorSwallowed == "while"

\* where learn is after the environment raised an exception: neither
\* _collect_samples nor learn has a try statement, so the call has ended
\* with the exception
AfterEnvError == "raised"

\* the frame of _collect_samples is gone
CollectUnwind ==
    /\ n_samples' = 0 /\ obs' = 0
    /\ observations' = <<>> /\ next_observations' = <<>> /\ rewards' = <<>>
    /\ dones' = <<>> /\ actions' = <<>>
    /\ cur_ep_ret' = 0 /\ current_ep_len' = 0
    /\ ep_rets' = <<>> /\ ep_lens' = <<>>
    /\ env_last_action' = <<>>
    /\ env_resets' = 0

\* line 272: self.env.reset() raises
ResetRaises ==
    /\ pc = "collect_init"
    /\ pc' = AfterEnvError
    /\ CollectUnwind
    /\ UNCHANGED <<fields, learn_calls, total_timesteps, iters_so_far,
                   timesteps_so_far, seg, ignore_dones, action_space,
                   env_ep_steps, call_env_steps, log_vars>>
    /\ UNCHANGED sac_vars

\* line 286: self.env.step(clipped_action) raises
StepRaises ==
    /\ pc = "collect_loop"
    /\ CollectMore
    /\ pc' = AfterEnvError
    /\ CollectUnwind
    /\ UNCHANGED <<fields, learn_calls, total_timesteps, iters_so_far,
                   timesteps_so_far, seg, ignore_dones, action_space,
                   env_ep_steps, call_env_steps, log_vars>>
    /\ UNCHANGED sac_vars

\* line 305: the step ended an episode and self.env.reset() raises
ResetAfterDoneRaises ==
    /\ pc = "collect_loop"
    /\ CollectMore
    /\ call_env_steps' = call_env_steps + 1
    /\ env_ep_steps' = env_ep_steps + 1
    /\ pc' = AfterEnvError
    /\ CollectUnwind
    /\ UNCHANGED <<fields, learn_calls, total_timesteps, iters_so_far,
                   timesteps_so_far, seg, ignore_dones, action_space,
                   log_vars>>
    /\ UNCHANGED sac_vars

\* the returned dict with the episode still open at the end of the segment
\* added to the completed-episode lists
SegmentWithOpenEpisode ==
    [observations |-> observations,
     next_observations |-> next_observations,
     rewards |-> rewards,
     dones |-> dones,
     actions |-> actions,
     ep_rets |-> IF current_ep_len > 0 THEN Append(ep_rets, cur_ep_ret)
                 ELSE ep_rets,
     ep_lens |-> IF current_ep_len > 0 THEN Append(ep_lens, current_ep_len)
                 ELSE ep_lens,
     total_timestep |-> Len(observations)]

\* lines 307-316: the returned dict
Segment ==
    [observations |-> observations,
     next_observations |-> next_observations,
     rewards |-> rewards,
     dones |-> dones,
     actions |-> actions,
     ep_rets |-> ep_rets,
     ep_lens |-> ep_lens,
     total_timestep |-> Len(observations)]

\* the loop's test fails: the segment is returned to learn and the callee's
\* locals are gone
CollectReturn ==
    /\ pc = "collect_loop"
    /\ ~CollectMore
    /\ seg' = Segment
    /\ pc' = "gae"
    /\ n_samples' = 0 /\ obs' = 0
    /\ observations' = <<>> /\ next_observations' = <<>> /\ rewards' = <<>>
    /\ dones' = <<>> /\ actions' = <<>>
    /\ cur_ep_ret' = 0 /\ current_ep_len' = 0
    /\ ep_rets' = <<>> /\ ep_lens' = <<>>
    /\ env_last_action' = <<>>
    /\ env_resets' = 0
    /\ UNCHANGED <<fields, learn_calls, total_timesteps, iters_so_far,
                   timesteps_so_far, ignore_dones, action_space, env_ep_steps,
                   call_env_steps, log_vars>>
    /\ UNCHANGED sac_vars

(***************************************************************************)
(* _add_vtarg_and_adv(): lines 334-358.                                    *)
(***************************************************************************)
\* a mask that lets every step through
OneMinusNoMask(done) == 1

\* 1 - dones[step], for a numpy bool
OneMinus(done) == IF done THEN 0 ELSE 1

\* line 353 with the flag dropped: the delta term always masked by done
NotDoneMasked(ign, done) == OneMinus(done)

\* line 353
NotDone(ign, done) == IF ign THEN 1 ELSE OneMinus(done)

\* line 354: delta = rewards[step] + gamma * notdone * next_vpred - vpred
Delta(reward, g, notdone, next_vpred, vpred) ==
    RSub(RAdd(Rat(reward), RMul(RMul(g, Rat(notdone)), Rat(next_vpred))),
         Rat(vpred))

\* lines 355-356 with lam forgotten in the decay of the accumulator
NextGaeLamNoLam(delta, g, l, done, lastgaelam) ==
    RAdd(delta, RMul(RMul(g, Rat(OneMinus(done))), lastgaelam))

\* lines 355-356: delta + gamma * lam * (1 - dones[step]) * lastgaelam
NextGaeLam(delta, g, l, done, lastgaelam) ==
    RAdd(delta, RMul(RMul(RMul(g, l), Rat(OneMinus(done))), lastgaelam))

\* lines 345-356: the loop over reversed(range(rew_len)), here from rew_len
\* down to 1, threading lastgaelam; adv and vpred start as np.empty arrays,
\* whose entries hold nothing meaningful until they are assigned
RECURSIVE GaeLoop(_, _, _, _, _, _, _, _)
GaeLoop(s, value, g, l, ign, step, lastgaelam, out) ==
    IF step = 0
    THEN out
    ELSE LET vpred == value[s.observations[step]]
             next_vpred == value[s.next_observations[step]]
             notdone == NotDone(ign, s.dones[step])
             delta == Delta(s.rewards[step], g, notdone, next_vpred, vpred)
             adv == NextGaeLam(delta, g, l, s.dones[step], lastgaelam)
         IN GaeLoop(s, value, g, l, ign, step - 1, adv,
                    [adv |-> [out.adv EXCEPT ![step] = adv],
                     vpred |-> [out.vpred EXCEPT ![step] = Rat(vpred)]])

\* line 358 with the value of the next step added instead of the step's own
TdLamRetShifted(adv, vpred) ==
    [i \in 1..Len(adv) |->
        RAdd(adv[i], IF i < Len(adv) THEN vpred[i + 1] ELSE Rat(0))]

\* line 358: seg["tdlamret"] = seg["adv"] + seg["vpred"], element by element
TdLamRet(adv, vpred) == [i \in 1..Len(adv) |-> RAdd(adv[i], vpred[i])]

\* the whole method: the segment with adv, vpred and tdlamret added
AddVtargAndAdv(s, value, g, l, ign) ==
    LET rew_len == Len(s.rewards)
        empty == [i \in 1..rew_len |-> None]
        out == GaeLoop(s, value, g, l, ign, rew_len, Rat(0),
                       [adv |-> empty, vpred |-> empty])
    IN [observations |-> s.observations,
        next_observations |-> s.next_observations,
        rewards |-> s.rewards,
        dones |-> s.dones,
        actions |-> s.actions,
        ep_rets |-> s.ep_rets,
        ep_lens |-> s.ep_lens,
        total_timestep |-> s.total_timestep,
        adv |-> out.adv,
        vpred |-> out.vpred,
        tdlamret |-> TdLamRet(out.adv, out.vpred)]

\* learn, line 222: self._add_vtarg_and_adv(seg, self.gamma, self.lam)
EstimateAdvantages ==
    /\ pc = "gae"
    /\ seg' = AddVtargAndAdv(seg, policy_value, gamma, lam, ignore_dones)
    /\ pc' = "train"
    /\ UNCHANGED <<fields, learn_calls, total_timesteps, iters_so_far,
                   timesteps_so_far, ignore_dones, collect_vars, env_vars,
                   log_vars>>
    /\ UNCHANGED sac_vars

(***************************************************************************)
(* _train(): the subclass's trainer step.  It returns and may have changed *)
(* the policy, hence the value function.                                   *)
(***************************************************************************)
Train ==
    /\ pc = "train"
    /\ \E v \in ValueFns : policy_value' = v
    /\ pc' = "log"
    /\ UNCHANGED <<timesteps_per_batch, gamma, lam, episodes_so_far,
                   self_timesteps_so_far, self_iters_so_far, learn_calls,
                   total_timesteps, iters_so_far, timesteps_so_far, seg,
                   ignore_dones, collect_vars, env_vars, log_vars>>
    /\ UNCHANGED sac_vars

(***************************************************************************)
(* _log_training(): lines 387-431, and learn's lines 233-234.              *)
(***************************************************************************)
RECURSIVE MaxSeq(_)
MaxSeq(s) ==
    IF Len(s) = 1 THEN s[1]
    ELSE LET m == MaxSeq(Tail(s)) IN IF s[1] > m THEN s[1] ELSE m

RECURSIVE MinSeq(_)
MinSeq(s) ==
    IF Len(s) = 1 THEN s[1]
    ELSE LET m == MinSeq(Tail(s)) IN IF s[1] < m THEN s[1] ELSE m

\* np.mean(x): nan (and a RuntimeWarning, no exception) for an empty list
NpMean(x) == IF Len(x) = 0 THEN NaN ELSE RNorm(SumSeq(x), Len(x))

\* max(x, default=0)
MaxDefault0(x) == IF Len(x) = 0 THEN 0 ELSE MaxSeq(x)

\* min(x, default=0)
MinDefault0(x) == IF Len(x) = 0 THEN 0 ELSE MinSeq(x)

\* the stats with the counters of the running call in place of the
\* object's
StatsOfTheCall(s, n_episodes, n_timesteps, n_iters) ==
    [episode_steps |-> NpMean(s.ep_lens),
     mean_return |-> NpMean(s.ep_rets),
     max_return |-> MaxDefault0(s.ep_rets),
     min_return |-> MinDefault0(s.ep_rets),
     episodes_this_itr |-> Len(s.ep_lens),
     episodes_total |-> n_episodes,
     total_steps |-> timesteps_so_far + s.total_timestep,
     epoch |-> iters_so_far + 1]

\* lines 396-411, without the columns that need the clock or a square
\* root (std_return, duration, steps_per_second, explained_variance)
Stats(s, n_episodes, n_timesteps, n_iters) ==
    [episode_steps |-> NpMean(s.ep_lens),
     mean_return |-> NpMean(s.ep_rets),
     max_return |-> MaxDefault0(s.ep_rets),
     min_return |-> MinDefault0(s.ep_rets),
     episodes_this_itr |-> Len(s.ep_lens),
     episodes_total |-> n_episodes,
     total_steps |-> n_timesteps,
     epoch |-> n_iters]

\* a writer that puts the header in front of every row
CsvLinesHeaderEveryTime(exists, st) ==
    <<[line |-> "header"],
      [line |-> "row", epoch |-> st.epoch, total_steps |-> st.total_steps]>>

\* lines 416-422: the header if the file was not there, then the row; of
\* the row the model keeps the epoch and total_steps columns
CsvLines(exists, st) ==
    (IF exists THEN <<>> ELSE <<[line |-> "header"]>>)
    \o <<[line |-> "row", epoch |-> st.epoch, total_steps |-> st.total_steps]>>

\* the call of line 229
LogTraining ==
    /\ pc = "log"
    /\ episodes_so_far' = episodes_so_far + Len(seg.ep_lens)
    /\ self_timesteps_so_far' = self_timesteps_so_far + seg.total_timestep
    /\ self_iters_so_far' = self_iters_so_far + 1
    /\ stats' = Stats(seg, episodes_so_far', self_timesteps_so_far',
                      self_iters_so_far')
    /\ train_csv' = train_csv \o CsvLines(file_exists, stats')
    /\ file_exists' = TRUE
    /\ pc' = "increment"
    /\ UNCHANGED <<timesteps_per_batch, gamma, lam, policy_value, learn_calls,
                   total_timesteps, iters_so_far, timesteps_so_far, seg,
                   ignore_dones, collect_vars, env_vars>>
    /\ UNCHANGED sac_vars

\* learn, lines 233-234, and back to the loop's test; the segment and the
\* stats dict of this iteration are not used again
LearnIncrement ==
    /\ pc = "increment"
    /\ iters_so_far' = iters_so_far + 1
    /\ timesteps_so_far' = timesteps_so_far + seg.total_timestep
    /\ seg' = NoSegment
    /\ stats' = NoStats
    /\ pc' = "while"
    /\ UNCHANGED <<fields, learn_calls, total_timesteps, ignore_dones,
                   collect_vars, env_vars, file_exists, train_csv>>
    /\ UNCHANGED sac_vars

Next ==
    \/ \E total \in -1..MaxTotal : Learn(total)
    \/ LearnIterate
    \/ LearnReturn
    \/ CollectInit
    \/ CollectStep
    \/ ResetRaises
    \/ StepRaises
    \/ ResetAfterDoneRaises
    \/ CollectReturn
    \/ EstimateAdvantages
    \/ Train
    \/ LogTraining
    \/ LearnIncrement

Spec == Init /\ [][Next]_vars

(***************************************************************************)
(* The advantage estimator on its own: _add_vtarg_and_adv applied to any   *)
(* segment of at most GaeMaxLen steps, with any of the value functions and *)
(* factors, and with ignore_dones either way.                              *)
(***************************************************************************)
\* a segment as the estimator reads it; it reads none of actions, ep_rets
\* and ep_lens
GaeSegment(n, o, no, r, d) ==
    [observations |-> o, next_observations |-> no, rewards |-> r,
     dones |-> d, actions |-> [i \in 1..n |-> 0], ep_rets |-> <<>>,
     ep_lens |-> <<>>, total_timestep |-> n]

InitGAE ==
    /\ SacIdle
    /\ timesteps_per_batch = 0
    /\ \E f \in GaeFactors : gamma = f[1] /\ lam = f[2]
    /\ episodes_so_far = 0
    /\ self_timesteps_so_far = 0
    /\ self_iters_so_far = 0
    /\ policy_value \in ValueFns
    /\ pc = "gae"
    /\ learn_calls = 0
    /\ total_timesteps = 0
    /\ iters_so_far = 0
    /\ timesteps_so_far = 0
    /\ \E n \in 0..GaeMaxLen :
        \E o \in [1..n -> Obs], no \in [1..n -> Obs],
           r \in [1..n -> Rewards], d \in [1..n -> BOOLEAN] :
            seg = GaeSegment(n, o, no, r, d)
    /\ ignore_dones \in BOOLEAN
    /\ NoLocals
    /\ action_space \in {a \in ActionSpaces : a.is_box}
    /\ env_ep_steps = 0
    /\ call_env_steps = 0
    /\ env_resets = 0
    /\ env_last_action = <<>>
    /\ stats = NoStats
    /\ file_exists = FALSE
    /\ train_csv = <<>>

NextGAE == EstimateAdvantages

SpecGAE == InitGAE /\ [][NextGAE]_vars

(***************************************************************************)
(* The update engine of the SAC policy, FeedForwardPolicy.                 *)
(*                                                                         *)
(* Parameters.  Each network is one number: qf[i] is critic i ("model/     *)
(* qf_i"), target_qf[i] its target ("target/qf_i"), pi the actor ("model/  *)
(* pi") and log_alpha the temperature.  One step of an Adam optimizer      *)
(* moves every variable it trains by one of GradSteps.                     *)
(*                                                                         *)
(* The replay buffer and _setup_target_updates are not part of the two     *)
(* files; they are modelled as documented: a ring of buffer_size slots     *)
(* sampled with replacement, a hard copy, and a Polyak average.            *)
(***************************************************************************)
\* displacements of a trained variable by one optimizer step
GradSteps == {1}

\* values of tau
Taus == {<<1, 2>>, <<1, 4>>}

\* values of a fetched loss
LossValues == {0, 1}

\* float(done)
Float(done) == IF done THEN 1 ELSE 0

\* the operations update_from_batch hands to one sess.run, the three loss
\* tensors aside; target_soft_updates is one assignment per target critic
StepOps ==
    {"critic_optimizer_0", "critic_optimizer_1", "actor_optimizer",
     "alpha_optimizer", "target_soft_update_0", "target_soft_update_1"}

\* ReplayBuffer.add: write at the pointer, which wraps at the capacity
ReplayAdd(storage, next_idx, capacity, transition) ==
    IF next_idx >= Len(storage)
    THEN Append(storage, transition)
    ELSE [storage EXCEPT ![next_idx + 1] = transition]

\* a buffer whose write index never wraps around
ReplayNextIdxNoWrap(next_idx, capacity) == next_idx + 1

ReplayNextIdx(next_idx, capacity) == (next_idx + 1) % capacity

\* ReplayBuffer.can_sample
CanSample == Len(rb_storage) >= batch_size

\* ReplayBuffer.sample: batch_size stored transitions, with replacement
ReplaySamples ==
    {[k \in 1..batch_size |-> rb_storage[idx[k]]] :
        idx \in [1..batch_size -> 1..Len(rb_storage)]}

\* one soft assignment of target_soft_updates
SoftUpdate(t, online, target) ==
    RAdd(RMul(t, online), RMul(RSub(Rat(1), t), target))

\* store_transition: the transition goes to the replay buffer unless the
\* policy is being evaluated
StoreTransitionBody(done, evaluate) ==
    /\ IF ~evaluate
       THEN /\ rb_storage' =
                ReplayAdd(rb_storage, rb_next_idx, buffer_size,
                          [id |-> rb_added + 1, done |-> Float(done)])
            /\ rb_next_idx' = ReplayNextIdx(rb_next_idx, buffer_size)
            /\ rb_added' = rb_added + 1
       ELSE UNCHANGED <<rb_storage, rb_next_idx, rb_added>>
    /\ UNCHANGED <<sac_args, rb_samples, tf_vars, update_vars>>
    /\ UNCHANGED <<driver_vars, graph_vars>>

\* store_transition, called between two updates
StoreTransition(done, evaluate) ==
    /\ sac_pc = "idle"
    /\ rb_added + update_calls < MaxCalls
    /\ StoreTransitionBody(done, evaluate)

TargetInitAsSoftUpdate(online, target) == SoftUpdate(tau, online, target)

\* one assignment of target_init_updates
TargetInitUpdate(online, target) == online

\* initialize: run target_init_updates
Initialize ==
    /\ sac_pc = "idle"
    /\ target_qf # qf
    /\ target_qf' = [i \in 1..2 |-> TargetInitUpdate(qf[i], target_qf[i])]
    /\ UNCHANGED <<sac_args, rb_vars, qf, pi, log_alpha, update_vars>>
    /\ UNCHANGED <<driver_vars, graph_vars>>

UpdateSkipsOnEmptyBuffer == Len(rb_storage) = 0

\* update: "Not enough samples in the replay buffer."
UpdateSkips == ~CanSample

\* update when it returns 0, 0
UpdateSkip ==
    /\ sac_pc = "idle"
    /\ rb_added + update_calls < MaxCalls
    /\ UpdateSkips
    /\ update_calls' = update_calls + 1
    /\ update_ret' = <<0, 0>>
    /\ UNCHANGED <<sac_args, rb_vars, tf_vars, sac_pc, batch, pending,
                   target_before>>
    /\ UNCHANGED <<driver_vars, graph_vars>>

\* update up to the sess.run of update_from_batch: a batch is drawn and
\* the step operations are handed to the session
Update ==
    /\ sac_pc = "idle"
    /\ rb_added + update_calls < MaxCalls
    /\ ~UpdateSkips
    /\ update_calls' = update_calls + 1
    /\ rb_samples' = rb_samples + 1
    /\ batch' \in ReplaySamples
    /\ pending' = StepOps
    /\ target_before' = target_qf
    /\ update_ret' = <<>>
    /\ sac_pc' = "run"
    /\ UNCHANGED <<sac_args, rb_storage, rb_next_idx, rb_added, tf_vars>>
    /\ UNCHANGED <<driver_vars, graph_vars>>

\* the critics critic_optimizer[i] trains: minimize is given the sum of the
\* two critics' losses and no var_list
CriticOptimizerVars(i) == {1, 2}

\* the session runs critic_optimizer[i]
RunCriticOptimizer(i) ==
    /\ sac_pc = "run"
    /\ ("critic_optimizer_0" \in pending /\ i = 1)
        \/ ("critic_optimizer_1" \in pending /\ i = 2)
    /\ pending' =
        pending \ {IF i = 1 THEN "critic_optimizer_0"
                   ELSE "critic_optimizer_1"}
    /\ \E step \in [1..2 -> GradSteps] :
        qf' = [j \in 1..2 |->
                IF j \in CriticOptimizerVars(i)
                THEN RAdd(qf[j], Rat(step[j])) ELSE qf[j]]
    /\ UNCHANGED <<sac_args, rb_vars, pi, log_alpha, target_qf, sac_pc,
                   update_calls, batch, target_before, update_ret>>
    /\ UNCHANGED <<driver_vars, graph_vars>>

\* the session runs actor_optimizer
RunActorOptimizer ==
    /\ sac_pc = "run"
    /\ "actor_optimizer" \in pending
    /\ pending' = pending \ {"actor_optimizer"}
    /\ \E step \in GradSteps : pi' = RAdd(pi, Rat(step))
    /\ UNCHANGED <<sac_args, rb_vars, qf, log_alpha, target_qf, sac_pc,
                   update_calls, batch, target_before, update_ret>>
    /\ UNCHANGED <<driver_vars, graph_vars>>

\* the session runs alpha_optimizer
RunAlphaOptimizer ==
    /\ sac_pc = "run"
    /\ "alpha_optimizer" \in pending
    /\ pending' = pending \ {"alpha_optimizer"}
    /\ \E step \in GradSteps : log_alpha' = RAdd(log_alpha, Rat(step))
    /\ UNCHANGED <<sac_args, rb_vars, qf, pi, target_qf, sac_pc,
                   update_calls, batch, target_before, update_ret>>
    /\ UNCHANGED <<driver_vars, graph_vars>>

\* the session runs the assignment of target_soft_updates to target critic i
RunTargetSoftUpdate(i) ==
    /\ sac_pc = "run"
    /\ ("target_soft_update_0" \in pending /\ i = 1)
        \/ ("target_soft_update_1" \in pending /\ i = 2)
    /\ pending' =
        pending \ {IF i = 1 THEN "target_soft_update_0"
                   ELSE "target_soft_update_1"}
    /\ target_qf' =
        [target_qf EXCEPT ![i] = SoftUpdate(tau, qf[i], target_qf[i])]
    /\ UNCHANGED <<sac_args, rb_vars, qf, pi, log_alpha, sac_pc,
                   update_calls, batch, target_before, update_ret>>
    /\ UNCHANGED <<driver_vars, graph_vars>>

\* sess.run is over: update_from_batch and update return the two losses
UpdateReturn ==
    /\ sac_pc = "run"
    /\ pending = {}
    /\ \E critic_loss \in LossValues, actor_loss \in LossValues :
        update_ret' = <<critic_loss, actor_loss>>
    /\ batch' = <<>>
    /\ target_before' = target_qf
    /\ sac_pc' = "idle"
    /\ UNCHANGED <<sac_args, rb_vars, tf_vars, update_calls, pending>>
    /\ UNCHANGED <<driver_vars, graph_vars>>

\* a policy after construction: the online and the target critics are
\* initialised independently of each other
InitSAC ==
    /\ buffer_size \in 1..MaxBufferSize
    /\ batch_size \in 1..MaxBufferSize
    /\ tau \in Taus
    /\ rb_storage = <<>>
    /\ rb_next_idx = 0
    /\ rb_added = 0
    /\ rb_samples = 0
    /\ qf = <<Rat(1), Rat(2)>>
    /\ pi = Rat(0)
    /\ log_alpha = Rat(0)
    /\ target_qf = <<Rat(0), Rat(0)>>
    /\ sac_pc = "idle"
    /\ update_calls = 0
    /\ batch = <<>>
    /\ pending = {}
    /\ target_before = <<Rat(0), Rat(0)>>
    /\ update_ret = <<>>
    /\ feed = NoFeed
    /\ fetched = NoFetched
    /\ ActorIdle
    /\ timesteps_per_batch = 0
    /\ gamma = DriverGamma
    /\ lam = DriverLam
    /\ episodes_so_far = 0
    /\ self_timesteps_so_far = 0
    /\ self_iters_so_far = 0
    /\ policy_value = [o \in Obs |-> o + 1]
    /\ pc = "idle"
    /\ learn_calls = 0
    /\ total_timesteps = 0
    /\ iters_so_far = 0
    /\ timesteps_so_far = 0
    /\ seg = NoSegment
    /\ ignore_dones = FALSE
    /\ NoLocals
    /\ action_space \in {a \in ActionSpaces : a.is_box}
    /\ env_ep_steps = 0
    /\ call_env_steps = 0
    /\ env_resets = 0
    /\ env_last_action = <<>>
    /\ stats = NoStats
    /\ file_exists = FALSE
    /\ train_csv = <<>>

NextSAC ==
    \/ \E done \in BOOLEAN, evaluate \in BOOLEAN :
        StoreTransition(done, evaluate)
    \/ Initialize
    \/ UpdateSkip
    \/ Update
    \/ \E i \in 1..2 : RunCriticOptimizer(i)
    \/ RunActorOptimizer
    \/ RunAlphaOptimizer
    \/ \E i \in 1..2 : RunTargetSoftUpdate(i)
    \/ UpdateReturn

SpecSAC == InitSAC /\ [][NextSAC]_vars

(***************************************************************************)
(* The loss tensors of the SAC graph (__init__ Step 3, the two             *)
(* _setup_*_optimizer methods), evaluated on one feed.                     *)
(*                                                                         *)
(* A critic network with parameter theta maps (obs, action) to             *)
(* theta * action + obs: a value that depends on its parameter and on both *)
(* of its inputs.  What the actor network computes for a row (its sampled  *)
(* action and log-probability at obs0 and at obs1) is part of the row.     *)
(* tf.exp is taken to the base 2, so that alpha is an exact rational:      *)
(* positive, increasing in log_alpha, and 1 at log_alpha = 0.              *)
(***************************************************************************)
RLess(a, b) == a[1] * b[2] < b[1] * a[2]

RMin(a, b) == IF RLess(b, a) THEN b ELSE a

RAbs(a) == <<Abs(a[1]), a[2]>>

RECURSIVE RSumSeq(_)
RSumSeq(s) == IF Len(s) = 0 THEN Rat(0) ELSE RAdd(Head(s), RSumSeq(Tail(s)))

\* tf.reduce_mean over the batch dimension
ReduceMean(s) == RMul(RSumSeq(s), <<1, Len(s)>>)

\* tf.exp
Exp(x) == IF x >= 0 THEN Rat(2 ^ x) ELSE <<1, 2 ^ (-x)>>

\* the rows a batch is made of
FeedRows ==
    [obs0 : {0}, action : {0, 1}, reward : {0, 1}, obs1 : {1},
     terminal : {0, 1}, pi_action : {0, 1}, log_pi : {-1},
     next_action : {1}, next_log_pi : {-2}]

\* the parameters of the two critics, and of the two target critics
CriticParams == {<<1, 2>>, <<2, 1>>}
TargetParams == {<<1, 3>>, <<3, 1>>}

\* values of log_alpha
LogAlphas == {-1, 0}

\* self.gamma of the policy
SacGamma == <<1, 2>>

\* self.target_entropy: -np.prod(self.ac_space.shape), one action dimension
TargetEntropy == -1

\* make_critic
Critic(theta, ob, action) == theta * action + ob

\* self.critic_tf[i]: critic i on (obs_ph, action_ph)
CriticTf(f, i, row) == Rat(Critic(f.qf[i], row.obs0, row.action))

\* self.critic_with_actor_tf[i]: critic i on (obs_ph, actor_tf)
CriticWithActorTf(f, i, row) == Rat(Critic(f.qf[i], row.obs0, row.pi_action))

\* critic_target[i]: target critic i on (obs1_ph, actor_target)
CriticTarget(f, i, row) ==
    Rat(Critic(f.target_qf[i], row.obs1, row.next_action))

\* self.alpha
Alpha(f) == Exp(f.log_alpha)

\* q_obs1 of _setup_critic_optimizer
QObs1(f, row) ==
    RSub(RMin(CriticTarget(f, 1, row), CriticTarget(f, 2, row)),
         RMul(Alpha(f), Rat(row.next_log_pi)))

TargetQIgnoringTerminal(f, row) ==
    RAdd(Rat(row.reward), RMul(f.gamma, QObs1(f, row)))

\* target_q of _setup_critic_optimizer
TargetQ(f, row) ==
    RAdd(Rat(row.reward),
         RMul(RMul(Rat(1 - row.terminal), f.gamma), QObs1(f, row)))

\* tf.compat.v1.losses.huber_loss of one element, delta = 1
Huber(error) ==
    LET abs_error == RAbs(error)
        quadratic == RMin(abs_error, Rat(1))
        linear == RSub(abs_error, quadratic)
    IN RAdd(RMul(<<1, 2>>, RMul(quadratic, quadratic)), linear)

\* loss_fn: huber_loss or mean_squared_error, averaged over the batch
LossFn(use_huber, labels, predictions) ==
    ReduceMean([k \in 1..Len(labels) |->
        LET error == RSub(predictions[k], labels[k]) IN
        IF use_huber THEN Huber(error) ELSE RMul(error, error)])

\* self.critic_loss
CriticLoss(f) ==
    LET target_q == [k \in 1..Len(f.rows) |-> TargetQ(f, f.rows[k])] IN
    RAdd(LossFn(f.use_huber,
                [k \in 1..Len(f.rows) |-> CriticTf(f, 1, f.rows[k])],
                target_q),
         LossFn(f.use_huber,
                [k \in 1..Len(f.rows) |-> CriticTf(f, 2, f.rows[k])],
                target_q))

\* self.actor_loss
ActorLoss(f) ==
    ReduceMean([k \in 1..Len(f.rows) |->
        RSub(RMul(Alpha(f), Rat(f.rows[k].log_pi)),
             RMin(CriticTf(f, 1, f.rows[k]), CriticTf(f, 2, f.rows[k])))])

\* self.alpha_loss
AlphaLoss(f) ==
    RSub(Rat(0),
         ReduceMean([k \in 1..Len(f.rows) |->
            RMul(Rat(f.log_alpha),
                 Rat(f.rows[k].log_pi + TargetEntropy))]))

\* the session evaluates target_q and the three losses on the feed
EvaluateLosses ==
    /\ Len(feed.rows) > 0
    /\ Len(fetched.target_q) = 0
    /\ fetched' =
        [target_q |-> [k \in 1..Len(feed.rows) |-> TargetQ(feed, feed.rows[k])],
         critic_loss |-> CriticLoss(feed),
         actor_loss |-> ActorLoss(feed),
         alpha_loss |-> AlphaLoss(feed)]
    /\ UNCHANGED <<feed, actor_vars, sac_args, rb_vars, tf_vars, update_vars>>
    /\ UNCHANGED driver_vars

\* a driver nothing has been done with
DriverIdle ==
    /\ timesteps_per_batch = 0
    /\ gamma = DriverGamma
    /\ lam = DriverLam
    /\ episodes_so_far = 0
    /\ self_timesteps_so_far = 0
    /\ self_iters_so_far = 0
    /\ policy_value = [o \in Obs |-> o + 1]
    /\ pc = "idle"
    /\ learn_calls = 0
    /\ total_timesteps = 0
    /\ iters_so_far = 0
    /\ timesteps_so_far = 0
    /\ seg = NoSegment
    /\ ignore_dones = FALSE
    /\ NoLocals
    /\ action_space \in {a \in ActionSpaces : a.is_box}
    /\ env_ep_steps = 0
    /\ call_env_steps = 0
    /\ env_resets = 0
    /\ env_last_action = <<>>
    /\ stats = NoStats
    /\ file_exists = FALSE
    /\ train_csv = <<>>

InitLoss ==
    /\ DriverIdle
    /\ PolicyIdle
    /\ ActorIdle
    /\ \E n \in 1..LossBatch :
        \E rows \in [1..n -> FeedRows] :
            \E q \in CriticParams, t \in TargetParams, la \in LogAlphas,
               h \in BOOLEAN :
                feed = [rows |-> rows, qf |-> q, target_qf |-> t,
                        log_alpha |-> la, gamma |-> SacGamma,
                        use_huber |-> h]
    /\ fetched = NoFetched

NextLoss == EvaluateLosses

SpecLoss == InitLoss /\ [][NextLoss]_vars

(***************************************************************************)
(* FeedForwardPolicy.__init__ as far as it depends on the action space,    *)
(* and the actor tensors of make_actor and _compute_log_pis, evaluated for *)
(* one observation.                                                        *)
(*                                                                         *)
(* tanh is taken as u / (1 + |u|): exact on rationals, odd, increasing,    *)
(* with values in (-1, 1).  A logarithm is not computed: log_pi is kept as *)
(* the rational part of the Gaussian term, the number of log(2 pi) terms   *)
(* and the arguments of the logarithms of the tanh correction.             *)
(***************************************************************************)
\* CAP the standard deviation of the actor
LOG_STD_MAX == 2
LOG_STD_MIN == -20

\* eps of _compute_log_pis: 1e-6
Eps == <<1, 1000000>>

RDiv(a, b) ==
    IF b[1] = 0 THEN NaN
    ELSE IF b[1] > 0 THEN RNorm(a[1] * b[2], a[2] * b[1])
    ELSE RNorm((-a[1]) * b[2], a[2] * (-b[1]))

\* tf.nn.tanh
Tanh(u) == RDiv(u, RAdd(Rat(1), RAbs(u)))

\* tf.clip_by_value
ClipByValue(x, lower, upper) ==
    IF x < lower THEN lower ELSE IF x > upper THEN upper ELSE x

\* the bounds of one action dimension
AcBounds == {<<-1, 1>>, <<0, 2>>}

\* the action spaces a policy is constructed with: 0..AcDim dimensions
AcSpaces ==
    UNION {{[shape |-> n, low |-> [i \in 1..n |-> b[i][1]],
             high |-> [i \in 1..n |-> b[i][2]]] : b \in [1..n -> AcBounds]} :
           n \in 0..AcDim}

\* what the network puts out for one action dimension, before the clip,
\* and the noise drawn for it; no log-std is below LOG_STD_MIN, the
\* exponential of which exceeds the integers of the model checker next to
\* eps
PiMeans == {0, 1}
PiLogStds == {0, 3}
Noises == {-1, 1}

\* how the construction of a layer of no unit ends: the layer library
\* either builds an empty layer or refuses the size
ZeroUnitsOutcomes == {"constructed", "ValueError"}

\* __init__: the assertion on layers, then the networks; the output layer
\* of the actor has 2 * ac_space.shape[0] units, and nothing tests that
\* number
Construct ==
    /\ built = "none"
    /\ built' = IF ~(layers >= 1) THEN "AssertionError" ELSE "constructed"
    /\ UNCHANGED <<ac_space, layers, actor_out, loss_vars>>
    /\ UNCHANGED <<sac_args, rb_vars, tf_vars, update_vars, driver_vars>>

\* __init__ when the layer library refuses a layer of no unit
ConstructRefused ==
    /\ built = "none"
    /\ layers >= 1
    /\ 2 * ac_space.shape = 0
    /\ built' \in ZeroUnitsOutcomes \ {"constructed"}
    /\ UNCHANGED <<ac_space, layers, actor_out, loss_vars>>
    /\ UNCHANGED <<sac_args, rb_vars, tf_vars, update_vars, driver_vars>>

\* ac_means and ac_magnitudes
AcMeans(space) ==
    [i \in 1..space.shape |-> RNorm(space.high[i] + space.low[i], 2)]
AcMagnitudes(space) ==
    [i \in 1..space.shape |-> RNorm(space.high[i] - space.low[i], 2)]

\* make_actor: the value before the squashing
PreSquash(pi_mean, pi_logstd, noise) ==
    [i \in 1..Len(pi_mean) |->
        RAdd(Rat(pi_mean[i]), RMul(Exp(pi_logstd[i]), Rat(noise[i])))]

\* make_actor: "The policy is squashed by a tanh and scaled by the action
\* space of the environment."
Squash(space, u) ==
    [i \in 1..Len(u) |->
        RAdd(RMul(AcMagnitudes(space)[i], Tanh(u[i])), AcMeans(space)[i])]

\* _compute_log_pis: "Modify the actions to be bounded between (-1, 1)"
Normalized(space, policy) ==
    [i \in 1..Len(policy) |->
        RDiv(RSub(policy[i], AcMeans(space)[i]), AcMagnitudes(space)[i])]

\* |(x - pi_mean) / (exp(pi_logstd) + eps)|, the square of which is the
\* quadratic term of the Gaussian log-density taken at x
AbsStandardized(x, pi_mean, pi_logstd) ==
    RAbs(RDiv(RSub(x, Rat(pi_mean)), RAdd(Exp(pi_logstd), Eps)))

\* _compute_log_pis.  The value is
\*   -0.5 * sum_i (abs_z[i]^2 + 2 * pi_logstd[i] + log(2 pi))
\*   - sum_i log(tanh_terms[i]);
\* the squares, the sums and the logarithms are left to the reader of the
\* record: the squares exceed the integers of the model checker.
ComputeLogPis(space, policy, pi_mean, pi_logstd) ==
    LET normalized == Normalized(space, policy) IN
    [abs_z |-> [i \in 1..Len(policy) |->
        AbsStandardized(normalized[i], pi_mean[i], pi_logstd[i])],
     pi_logstd |-> pi_logstd,
     tanh_terms |-> [i \in 1..Len(policy) |->
        RAdd(RSub(Rat(1), RMul(normalized[i], normalized[i])), Eps)]]

\* the session evaluates actor_tf and log_pi for one observation
MakeActor ==
    /\ built = "constructed"
    /\ Len(actor_out.policy) = 0
    /\ ac_space.shape >= 1
    /\ \E mean \in [1..ac_space.shape -> PiMeans],
          logstd \in [1..ac_space.shape -> PiLogStds],
          noise \in [1..ac_space.shape -> Noises] :
        LET pi_logstd == [i \in 1..ac_space.shape |->
                ClipByValue(logstd[i], LOG_STD_MIN, LOG_STD_MAX)]
            u == PreSquash(mean, pi_logstd, noise)
            policy == Squash(ac_space, u)
        IN actor_out' =
            [policy |-> policy, pre_squash |-> u, pi_mean |-> mean,
             pi_logstd |-> pi_logstd,
             log_pi |-> ComputeLogPis(ac_space, policy, mean, pi_logstd)]
    /\ UNCHANGED <<ac_space, layers, built, loss_vars>>
    /\ UNCHANGED <<sac_args, rb_vars, tf_vars, update_vars, driver_vars>>

InitActor ==
    /\ DriverIdle
    /\ PolicyIdle
    /\ feed = NoFeed
    /\ fetched = NoFetched
    /\ ac_space \in AcSpaces
    /\ layers \in {0, 2}
    /\ built = "none"
    /\ actor_out = NoActorOut

NextActor ==
    \/ Construct
    \/ ConstructRefused
    \/ MakeActor

SpecActor == InitActor /\ [][NextActor]_vars

(***************************************************************************)
(* The replay buffer on its own: a policy whose caller only stores         *)
(* transitions, with capacities up to RbCapacity.                          *)
(***************************************************************************)
\* store_transition, called RbAdds times at most
StoreNext(done, evaluate) ==
    /\ sac_pc = "idle"
    /\ rb_added < RbAdds
    /\ StoreTransitionBody(done, evaluate)

InitBuffer ==
    /\ DriverIdle
    /\ ActorIdle
    /\ feed = NoFeed
    /\ fetched = NoFetched
    /\ buffer_size \in 1..RbCapacity
    /\ batch_size \in 1..RbCapacity
    /\ tau = <<1, 2>>
    /\ rb_storage = <<>>
    /\ rb_next_idx = 0
    /\ rb_added = 0
    /\ rb_samples = 0
    /\ qf = <<Rat(0), Rat(0)>>
    /\ pi = Rat(0)
    /\ log_alpha = Rat(0)
    /\ target_qf = <<Rat(0), Rat(0)>>
    /\ sac_pc = "idle"
    /\ update_calls = 0
    /\ batch = <<>>
    /\ pending = {}
    /\ target_before = <<Rat(0), Rat(0)>>
    /\ update_ret = <<>>

NextBuffer ==
    \E done \in BOOLEAN, evaluate \in BOOLEAN : StoreNext(done, evaluate)

SpecBuffer == InitBuffer /\ [][NextBuffer]_vars

(***************************************************************************)
(* Properties of the driver and of the advantage estimator.                *)
(***************************************************************************)
\* learn holds a segment returned by _collect_samples
SegInHand == pc \in {"gae", "train", "log", "increment"}

\* C1: for every n >= 1 and whatever the done flags were,
\* _collect_samples(n) returns a segment whose total_timestep is n and whose
\* observations, next_observations, actions, rewards and dones have n
\* entries each.
C1_ExactlyNTransitions ==
    (SegInHand /\ timesteps_per_batch >= 1) =>
        /\ seg.total_timestep = timesteps_per_batch
        /\ Len(seg.observations) = timesteps_per_batch
        /\ Len(seg.next_observations) = timesteps_per_batch
        /\ Len(seg.actions) = timesteps_per_batch
        /\ Len(seg.rewards) = timesteps_per_batch
        /\ Len(seg.dones) = timesteps_per_batch

\* a segment of two steps whose first step ended an episode
C1_Witness ==
    /\ pc = "gae"
    /\ timesteps_per_batch = 2
    /\ seg.dones = <<TRUE, FALSE>>
    /\ seg.total_timestep = 2

\* the steps of a segment whose done flag is set, in order
RECURSIVE DoneStepsFrom(_, _)
DoneStepsFrom(d, i) ==
    IF i > Len(d) THEN <<>>
    ELSE (IF d[i] THEN <<i>> ELSE <<>>) \o DoneStepsFrom(d, i + 1)

\* r[a] + ... + r[b]
RECURSIVE SumRange(_, _, _)
SumRange(r, a, b) == IF a > b THEN 0 ELSE r[a] + SumRange(r, a + 1, b)

\* C2: ep_rets and ep_lens of the returned segment hold one entry per step
\* whose done flag is set, in order (the length and the return of the
\* episode that step ends), and nothing else: the episode still open when
\* the budget is reached has no entry.
C2_CompletedEpisodesOnly ==
    SegInHand =>
        LET idx == DoneStepsFrom(seg.dones, 1)
            first(k) == IF k = 1 THEN 1 ELSE idx[k - 1] + 1
        IN /\ Len(seg.ep_rets) = Len(idx)
           /\ Len(seg.ep_lens) = Len(idx)
           /\ \A k \in 1..Len(idx) :
                /\ seg.ep_lens[k] = idx[k] - first(k) + 1
                /\ seg.ep_rets[k] = SumRange(seg.rewards, first(k), idx[k])

\* an episode of one step, then an episode with reward cut by the budget
C2_Witness ==
    /\ pc = "gae"
    /\ seg.dones = <<TRUE, FALSE>>
    /\ seg.rewards = <<1, 1>>
    /\ seg.ep_lens = <<1>>
    /\ seg.ep_rets = <<1>>

\* C3: a segment boundary does not end an episode: when _collect_samples
\* starts while the environment's episode is open, the environment is not
\* reset and the running episode length is not discarded (the episode goes
\* on in the new segment).
C3_EpisodeSpansSegments ==
    [][(pc = "collect_init" /\ env_ep_steps > 0) =>
           (env_ep_steps' = env_ep_steps /\ current_ep_len' = env_ep_steps)]_vars

\* 1 + q + ... + q^(k-1)
RECURSIVE GeomSum(_, _)
GeomSum(q, k) == IF k = 0 THEN Rat(0) ELSE RAdd(Rat(1), RMul(q, GeomSum(q, k - 1)))

\* the advantage that follows step t of the segment: 0 after the last step
AdvAfter(t) == IF t = Len(seg.rewards) THEN Rat(0) ELSE seg.adv[t + 1]

\* C4: with the done mask in use, for every step t
\*   adv[t] = rewards[t] + gamma*(1-dones[t])*V(next_obs[t]) - V(obs[t])
\*            + gamma*lam*(1-dones[t])*adv[t+1],   adv[T] = 0,
\* and for a constant reward, no done and one delta d throughout,
\*   adv[t] = d * (1 + gamma*lam + ... + (gamma*lam)^(T-t)).
C4_GaeRecursion ==
    (pc = "train" /\ ~ignore_dones) =>
        LET T == Len(seg.rewards)
            gl == RMul(gamma, lam)
            nd(t) == IF seg.dones[t] THEN Rat(0) ELSE Rat(1)
            td(t) == RSub(RAdd(Rat(seg.rewards[t]),
                               RMul(RMul(gamma, nd(t)),
                                    Rat(policy_value[seg.next_observations[t]]))),
                          Rat(policy_value[seg.observations[t]]))
        IN /\ \A t \in 1..T :
                seg.adv[t] = RAdd(td(t), RMul(RMul(gl, nd(t)), AdvAfter(t)))
           /\ (\A t \in 1..T : /\ ~seg.dones[t]
                               /\ seg.rewards[t] = seg.rewards[1]
                               /\ td(t) = td(1))
                => \A t \in 1..T :
                       seg.adv[t] = RMul(td(1), GeomSum(gl, T - t + 1))

\* three steps of reward 1 without a done, the advantages a geometric series
C4_Witness ==
    /\ pc = "train"
    /\ ~ignore_dones
    /\ Len(seg.rewards) = 3
    /\ seg.rewards = <<1, 1, 1>>
    /\ seg.dones = <<FALSE, FALSE, FALSE>>
    /\ seg.observations = <<0, 0, 0>>
    /\ seg.next_observations = <<0, 0, 0>>
    /\ seg.adv[3] # Rat(0)
    /\ seg.adv[1] # seg.adv[2]
    /\ seg.adv[2] # seg.adv[3]

\* C5: with ignore_dones the delta term treats every step as non-terminal
\* (delta = reward + gamma*V(next_obs) - V(obs) also at a done step) while
\* the decay term still multiplies the running advantage by 1 - done;
\* without it both terms are masked by done.
C5_IgnoreDonesDeltaOnly ==
    pc = "train" =>
        \A t \in 1..Len(seg.rewards) :
            LET done == IF seg.dones[t] THEN 1 ELSE 0
                mask == IF ignore_dones THEN 1 ELSE 1 - done
                boot == RMul(gamma, Rat(mask * policy_value[seg.next_observations[t]]))
                decay == RMul(RMul(gamma, lam), Rat(1 - done))
            IN seg.adv[t] =
                 RAdd(RSub(RAdd(Rat(seg.rewards[t]), boot),
                           Rat(policy_value[seg.observations[t]])),
                      RMul(decay, AdvAfter(t)))

\* ignore_dones set, a done step followed by a step of non-zero advantage:
\* the done step bootstraps from V(next_obs) and takes nothing from the
\* step after it
C5_Witness ==
    /\ pc = "train"
    /\ ignore_dones
    /\ seg.dones = <<TRUE, FALSE>>
    /\ seg.adv[2] # Rat(0)
    /\ seg.adv[1] = RSub(RAdd(Rat(seg.rewards[1]),
                              RMul(gamma, Rat(policy_value[seg.next_observations[1]]))),
                         Rat(policy_value[seg.observations[1]]))
    /\ seg.adv[1] # RSub(Rat(seg.rewards[1]), Rat(policy_value[seg.observations[1]]))

\* C6: after _add_vtarg_and_adv, adv, vpred and tdlamret have the length of
\* the segment's rewards, vpred[i] is the value function at observations[i],
\* and tdlamret[i] = adv[i] + vpred[i].
C6_ArraysAligned ==
    pc = "train" =>
        /\ Len(seg.rewards) = seg.total_timestep
        /\ Len(seg.adv) = Len(seg.rewards)
        /\ Len(seg.vpred) = Len(seg.rewards)
        /\ Len(seg.tdlamret) = Len(seg.rewards)
        /\ \A i \in 1..Len(seg.rewards) :
            /\ seg.vpred[i] = Rat(policy_value[seg.observations[i]])
            /\ seg.tdlamret[i] = RAdd(seg.adv[i], seg.vpred[i])

\* three steps with different value predictions along the segment
C6_Witness ==
    /\ pc = "train"
    /\ Len(seg.rewards) = 3
    /\ seg.vpred[1] # seg.vpred[2]
    /\ seg.tdlamret[1] # seg.adv[1]
    /\ seg.tdlamret[3] = RAdd(seg.adv[3], seg.vpred[3])

\* C7: learn(total_timesteps) with timesteps_per_batch >= 1 iterates until
\* the number of transitions collected in the call first reaches or
\* exceeds total_timesteps.  Whenever the loop's test is reached, the local
\* counter is the number of environment steps of the call, which is
\* timesteps_per_batch per iteration run; learn returns only with the
\* budget reached; it starts an iteration only with the budget not reached
\* (none at all for total_timesteps <= 0); and every iteration advances the
\* counter, so that the test fails after finitely many iterations.
C7_LearnStopsAtBudget ==
    /\ [][(pc' = "while" /\ timesteps_per_batch >= 1) =>
              /\ timesteps_so_far' = call_env_steps'
              /\ timesteps_so_far' = iters_so_far' * timesteps_per_batch]_vars
    /\ [][(pc = "while" /\ pc' = "idle" /\ timesteps_per_batch >= 1) =>
              timesteps_so_far >= total_timesteps]_vars
    /\ [][(pc = "while" /\ pc' # "idle" /\ timesteps_per_batch >= 1) =>
              (timesteps_so_far < total_timesteps /\ total_timesteps > 0)]_vars
    /\ [][(pc = "increment" /\ timesteps_per_batch >= 1) =>
              timesteps_so_far' >= timesteps_so_far + 1]_vars

\* a budget of 3 in batches of 2: the call is about to return with 4
\* transitions collected
C7_Witness ==
    /\ pc = "while"
    /\ timesteps_per_batch = 2
    /\ total_timesteps = 3
    /\ timesteps_so_far = 4
    /\ iters_so_far = 2

\* C8: when the segment holds no completed episode, the logged min_return,
\* max_return and mean_return are all 0.
C8_EmptyEpisodeStatsAreZero ==
    (pc = "increment" /\ Len(seg.ep_rets) = 0) =>
        /\ stats.min_return = 0
        /\ stats.max_return = 0
        /\ stats.mean_return = Rat(0)

(***************************************************************************)
(* Properties of the update engine.                                        *)
(***************************************************************************)
\* C9: an update() called while can_sample() is false returns (0, 0), draws
\* no batch, runs no optimizer and no target update, and leaves the online
\* parameters, the target parameters and the temperature as they were; and
\* an online parameter or the temperature only ever changes inside a
\* sess.run that was handed a batch of batch_size stored transitions.
C9_UpdateIsNoOpWithoutSamples ==
    /\ [][(update_calls' # update_calls /\ ~CanSample) =>
            /\ update_ret' = <<0, 0>>
            /\ sac_pc' = "idle"
            /\ UNCHANGED <<rb_vars, tf_vars, batch, pending>>]_vars
    /\ [][(<<qf, pi, log_alpha>>' # <<qf, pi, log_alpha>>) =>
            /\ sac_pc = "run"
            /\ rb_samples >= 1
            /\ batch_size >= 1
            /\ Len(batch) = batch_size
            /\ \A k \in 1..Len(batch) :
                \E n \in 1..Len(rb_storage) : batch[k] = rb_storage[n]]_vars

\* an update was skipped although a transition was stored: the batch size
\* is two
C9_Witness ==
    /\ sac_pc = "idle"
    /\ update_calls = 1
    /\ update_ret = <<0, 0>>
    /\ Len(rb_storage) = 1
    /\ batch_size = 2
    /\ rb_samples = 0
    /\ qf = <<Rat(1), Rat(2)>>

\* C10: in a sess.run of update_from_batch no soft target update runs while
\* one of the four optimizers has yet to run, and when the run is over
\* each target critic is tau * (the online critic after the gradient steps)
\* + (1 - tau) * (the target critic before the run).
C10_PolyakAfterGradientSteps ==
    /\ (sac_pc = "run" /\ pending \cap {"target_soft_update_0",
                                        "target_soft_update_1"}
            # {"target_soft_update_0", "target_soft_update_1"}) =>
        pending \cap {"critic_optimizer_0", "critic_optimizer_1",
                      "actor_optimizer", "alpha_optimizer"} = {}
    /\ (sac_pc = "run" /\ pending = {}) =>
        \A i \in 1..2 :
            target_qf[i] = SoftUpdate(tau, qf[i], target_before[i])

\* C11: the optimizer created for critic i changes the parameters of critic
\* i only; it leaves the other critic, the actor and the temperature as
\* they were.
C11_CriticOptimizersDisjoint ==
    [][\A i \in 1..2 :
        LET op == IF i = 1 THEN "critic_optimizer_0"
                  ELSE "critic_optimizer_1" IN
        (sac_pc = "run" /\ op \in pending /\ op \notin pending') =>
            /\ qf'[3 - i] = qf[3 - i]
            /\ pi' = pi
            /\ log_alpha' = log_alpha]_vars

(***************************************************************************)
(* Properties of the loss tensors.                                         *)
(***************************************************************************)
\* the loss tensors have been evaluated
LossesFetched == Len(fetched.target_q) > 0

\* C12: the actor loss is the batch mean of alpha * log_pi - min(Q1, Q2)
\* with both critics evaluated at the action the actor sampled for the
\* row's observation, not at the action of the batch.
C12_ActorLossAtActorAction ==
    LossesFetched =>
        fetched.actor_loss =
            ReduceMean([k \in 1..Len(feed.rows) |->
                RSub(RMul(Alpha(feed), Rat(feed.rows[k].log_pi)),
                     RMin(CriticWithActorTf(feed, 1, feed.rows[k]),
                          CriticWithActorTf(feed, 2, feed.rows[k])))])

\* C13: for every row of the batch the critic target is
\* reward + (1 - terminal) * gamma * (min(targetQ1, targetQ2) - alpha *
\* next_log_pi), the target critics being evaluated at the next
\* observation; for a terminal row it is the reward itself.
C13_CriticTarget ==
    LossesFetched =>
        \A k \in 1..Len(feed.rows) :
            LET row == feed.rows[k]
                tq1 == Rat(feed.target_qf[1] * row.next_action + row.obs1)
                tq2 == Rat(feed.target_qf[2] * row.next_action + row.obs1)
                soft == RSub(IF RLess(tq1, tq2) THEN tq1 ELSE tq2,
                             RMul(Exp(feed.log_alpha), Rat(row.next_log_pi)))
            IN /\ row.terminal = 1 => fetched.target_q[k] = Rat(row.reward)
               /\ row.terminal = 0 =>
                    RSub(fetched.target_q[k], Rat(row.reward)) =
                        RMul(feed.gamma, soft)

\* the targets of a batch of a terminal and a non-terminal row that differ
\* in nothing else have been computed, with alpha = 1/2
C13_Witness ==
    /\ LossesFetched
    /\ Len(feed.rows) = 2
    /\ feed.rows[1].terminal = 1
    /\ feed.rows[2] = [feed.rows[1] EXCEPT !.terminal = 0]
    /\ feed.log_alpha = -1
    /\ fetched.target_q[1] # fetched.target_q[2]

\* C14: a call of initialize() leaves every target critic equal to its
\* online critic, whatever the two were before; between two sess.run the
\* target critics change in no other way.
C14_InitializeHardCopy ==
    [][(sac_pc = "idle" /\ target_qf' # target_qf) =>
        /\ qf' = qf
        /\ \A i \in 1..2 : target_qf'[i] = qf[i]]_vars

\* initialize() was called after an update had moved both the online and
\* the target critics
C14_Witness ==
    /\ sac_pc = "idle"
    /\ update_calls = 1
    /\ Len(update_ret) = 2
    /\ qf = <<Rat(3), Rat(4)>>
    /\ target_qf = qf

(***************************************************************************)
(* Properties of the construction and of the actor tensors.                *)
(***************************************************************************)
\* the actor tensors have been evaluated
ActorEvaluated == Len(actor_out.policy) > 0

\* C15: in log_pi the Gaussian log-density is taken at the value before the
\* squashing, mean + exp(log_std) * noise, and the correction is the sum of
\* log(1 - normalized_action^2 + eps) with normalized_action =
\* (squashed action - action mean) / action magnitude.
C15_GaussianAtPreSquash ==
    ActorEvaluated =>
        \A i \in 1..ac_space.shape :
            LET a == RDiv(RSub(actor_out.policy[i], AcMeans(ac_space)[i]),
                          AcMagnitudes(ac_space)[i])
            IN /\ actor_out.log_pi.abs_z[i] =
                    RAbs(RDiv(RSub(actor_out.pre_squash[i],
                                   Rat(actor_out.pi_mean[i])),
                              RAdd(Exp(actor_out.pi_logstd[i]), Eps)))
               /\ actor_out.log_pi.tanh_terms[i] =
                    RAdd(RSub(Rat(1), RMul(a, a)), Eps)

\* C16: constructing a policy for an action space of no dimension ends in
\* a configuration error.
C16_ZeroDimFailsFast ==
    (built # "none" /\ layers >= 1 /\ ac_space.shape = 0) =>
        built = "ConfigurationError"

(***************************************************************************)
(* Further properties of the driver.                                       *)
(***************************************************************************)
\* C17: an exception of env.reset() or env.step() during sampling ends the
\* learn() call: sampling, once begun, ends with the returned segment or
\* with the call; the step that ends the call touches no counter, no
\* policy and no log row, and takes no environment step beyond the one
\* whose reset failed; after it nothing happens.
C17_EnvErrorEndsLearn ==
    /\ [][(pc = "collect_init" => pc' \in {"collect_loop", "raised"})
          /\ (pc = "collect_loop" => pc' \in {"collect_loop", "gae", "raised"})
         ]_vars
    /\ [][pc' = "raised" =>
            /\ pc \in {"collect_init", "collect_loop"}
            /\ UNCHANGED <<fields, log_vars, learn_calls, total_timesteps,
                           iters_so_far, timesteps_so_far, seg>>
            /\ call_env_steps' \in {call_env_steps, call_env_steps + 1}]_vars
    /\ [][pc # "raised"]_vars

\* the environment raised in the second iteration of a call, after the row
\* of the first had been written
C17_Witness ==
    /\ pc = "raised"
    /\ timesteps_per_batch = 1
    /\ total_timesteps = 3
    /\ iters_so_far = 1
    /\ call_env_steps = 2
    /\ Len(train_csv) = 2

(***************************************************************************)
(* Properties of the replay buffer.                                        *)
(***************************************************************************)
\* the identifiers of the stored transitions; the n-th add() stored
\* transition n
StoredIds == {rb_storage[n].id : n \in 1..Len(rb_storage)}

\* size <= capacity; after capacity + k adds the size is the capacity and
\* the k oldest transitions are neither stored nor part of any sample
RingBuffer ==
    LET size == Len(rb_storage) IN
    /\ 0 <= size /\ size <= buffer_size
    /\ size = IF rb_added < buffer_size THEN rb_added ELSE buffer_size
    /\ StoredIds = (rb_added - size + 1)..rb_added
    /\ \A b \in ReplaySamples : \A k \in 1..Len(b) :
        b[k].id > rb_added - buffer_size
    /\ rb_next_idx = rb_added % buffer_size

CsvRows == SelectSeq(train_csv, LAMBDA l : l.line = "row")

\* C19: an iteration goes from sampling to the advantage estimation, from
\* there to the trainer step, from there to logging and only then counts as
\* done; the logging step, and no other, appends exactly one row to the log
\* and leaves the lines already there as they were; the log is empty or is
\* the header followed by rows only.
C19_IterationOrderAndLog ==
    /\ [][/\ pc' = "gae" => pc = "collect_loop"
          /\ pc' = "train" => pc = "gae"
          /\ pc' = "log" => pc = "train"
          /\ pc' = "increment" => pc = "log"
          /\ iters_so_far' = iters_so_far + 1 => pc = "increment"
          /\ pc = "gae" => pc' = "train"
          /\ pc = "train" => pc' = "log"
          /\ pc = "log" => pc' = "increment"]_vars
    /\ [][/\ pc = "log" =>
                /\ Len(CsvRows') = Len(CsvRows) + 1
                /\ train_csv'[Len(train_csv')].line = "row"
          /\ pc # "log" => train_csv' = train_csv
          /\ Len(train_csv') >= Len(train_csv)
          /\ SubSeq(train_csv', 1, Len(train_csv)) = train_csv]_vars
    /\ [](train_csv # <<>> =>
            /\ train_csv[1].line = "header"
            /\ \A n \in 2..Len(train_csv) : train_csv[n].line = "row")

\* the second learn() call has logged its first iteration into the log the
\* first call left
C19_Witness ==
    /\ learn_calls = 2
    /\ pc = "increment"
    /\ iters_so_far = 0
    /\ Len(train_csv) = 3
    /\ train_csv[1].line = "header"
    /\ train_csv[3].line = "row"

(***************************************************************************)
(* Properties of the action given to the environment.                      *)
(***************************************************************************)
\* C20: with a Box action space, at every step of _collect_samples the
\* action given to env.step is the recorded one with every dimension
\* brought into [low, high], and the action recorded in the segment is the
\* one the policy returned, unclipped.
C20_StepClippedRecordUnclipped ==
    [][(pc = "collect_loop" /\ Len(actions') = Len(actions) + 1
            /\ action_space.is_box) =>
        LET passed == env_last_action'[1]
            recorded == actions'[Len(actions')]
            low == action_space.low
            high == action_space.high
        IN  /\ recorded \in Actions
            /\ DOMAIN passed = DOMAIN recorded
            /\ \A d \in DOMAIN passed :
                /\ low[d] <= passed[d] /\ passed[d] <= high[d]
                /\ recorded[d] < low[d] => passed[d] = low[d]
                /\ recorded[d] > high[d] => passed[d] = high[d]
                /\ (low[d] <= recorded[d] /\ recorded[d] <= high[d]) =>
                    passed[d] = recorded[d]]_vars

\* a segment with an action above the bounds and one below them, the
\* latter given to the environment clipped
C20_Witness ==
    /\ pc = "collect_loop"
    /\ action_space.is_box
    /\ Len(actions) = 2
    /\ actions[1] = <<0, 2>>
    /\ actions[2] = <<-2, 0>>
    /\ env_last_action = << <<-1, 0>> >>

(***************************************************************************)
(* Properties of the sampling loop's bookkeeping.                          *)
(***************************************************************************)
\* the number of done flags recorded so far
DonesRecorded == Cardinality({n \in 1..Len(dones) : dones[n]})

\* C21: at every test of the sampling loop the lengths of the completed
\* episodes plus the length of the open one is the number of transitions
\* recorded, their returns plus the open one's return is the sum of the
\* recorded rewards, and the environment has been reset once at the start
\* and once after every recorded done, the one on the last step included.
C21_LoopBookkeeping ==
    pc = "collect_loop" =>
        /\ SumSeq(ep_lens) + current_ep_len = Len(observations)
        /\ SumSeq(ep_rets) + cur_ep_ret = SumSeq(rewards)
        /\ env_resets = 1 + DonesRecorded
        /\ Len(dones) = Len(observations)
        /\ Len(rewards) = Len(observations)

\* the segment is complete and its last step ended an episode
C21_Witness ==
    /\ pc = "collect_loop"
    /\ n_samples = 2
    /\ dones = <<FALSE, TRUE>>
    /\ rewards = <<1, 1>>
    /\ ep_rets = <<2>>
    /\ ep_lens = <<2>>
    /\ current_ep_len = 0
    /\ env_resets = 2

(***************************************************************************)
(* Properties of the advantages at an episode boundary.                    *)
(***************************************************************************)
\* the first t steps of the segment, as a segment of their own
SegPrefix(t) ==
    GaeSegment(t, SubSeq(seg.observations, 1, t),
               SubSeq(seg.next_observations, 1, t),
               SubSeq(seg.rewards, 1, t), SubSeq(seg.dones, 1, t))

\* C22: with the done mask in use, the advantage of a done step is
\* reward - V(obs) of that step, and the advantages up to a done step are
\* those of the segment cut after it, whatever follows; the advantage of
\* the segment's last step, when it is not done, is
\* reward + gamma * V(next_obs) - V(obs).
C22_NoLeakAcrossDone ==
    (pc = "train" /\ ~ignore_dones) =>
        LET T == Len(seg.rewards) IN
        /\ \A t \in 1..T : seg.dones[t] =>
            /\ seg.adv[t] = RSub(Rat(seg.rewards[t]),
                                 Rat(policy_value[seg.observations[t]]))
            /\ \A k \in 1..t :
                seg.adv[k] =
                    AddVtargAndAdv(SegPrefix(t), policy_value, gamma, lam,
                                   FALSE).adv[k]
        /\ (T >= 1 /\ ~seg.dones[T]) =>
            seg.adv[T] =
                RSub(RAdd(Rat(seg.rewards[T]),
                          RMul(gamma,
                               Rat(policy_value[seg.next_observations[T]]))),
                     Rat(policy_value[seg.observations[T]]))

\* a done step between two others, followed by a step of non-zero
\* advantage and with a non-zero value at its next observation
C22_Witness ==
    /\ pc = "train"
    /\ ~ignore_dones
    /\ seg.dones = <<FALSE, TRUE, FALSE>>
    /\ seg.adv[3] # Rat(0)
    /\ policy_value[seg.next_observations[2]] # 0
    /\ seg.adv[2] = RSub(Rat(seg.rewards[2]),
                         Rat(policy_value[seg.observations[2]]))
    /\ seg.adv[1] # RSub(Rat(seg.rewards[1]),
                         Rat(policy_value[seg.observations[1]]))

(***************************************************************************)
(* Properties of the budget counters and the logged counters.              *)
(***************************************************************************)
\* the last line of the log
LastRow == train_csv[Len(train_csv)]

\* C23: a learn() call starts its budget counters at 0 and leaves the
\* object's counters alone; only the logging step changes the object's
\* counters, by one iteration, the size of the segment and its completed
\* episodes, and the row it writes carries the new values; in the first
\* call these are the call's own counts (epoch k + 1 in iteration k,
\* total_steps the sum of the segment sizes so far), in a later call they
\* go on from where the call before left them; and a call with
\* timesteps_per_batch >= 1 returns only after at least total_timesteps
\* environment steps of its own.
C23_LocalBudgetObjectCounters ==
    /\ [][(pc = "idle" /\ pc' = "while") =>
            /\ iters_so_far' = 0
            /\ timesteps_so_far' = 0
            /\ call_env_steps' = 0
            /\ UNCHANGED <<episodes_so_far, self_timesteps_so_far,
                           self_iters_so_far, train_csv>>]_vars
    /\ [][IF pc = "log"
          THEN /\ self_iters_so_far' = self_iters_so_far + 1
               /\ self_timesteps_so_far' =
                    self_timesteps_so_far + seg.total_timestep
               /\ episodes_so_far' = episodes_so_far + Len(seg.ep_lens)
               /\ LastRow'.line = "row"
               /\ LastRow'.epoch = self_iters_so_far'
               /\ LastRow'.total_steps = self_timesteps_so_far'
               /\ stats'.epoch = self_iters_so_far'
               /\ stats'.total_steps = self_timesteps_so_far'
               /\ stats'.episodes_total = episodes_so_far'
               /\ UNCHANGED <<iters_so_far, timesteps_so_far>>
          ELSE UNCHANGED <<episodes_so_far, self_timesteps_so_far,
                           self_iters_so_far>>]_vars
    /\ [][(pc = "log" /\ learn_calls = 1) =>
            /\ LastRow'.epoch = iters_so_far + 1
            /\ LastRow'.total_steps = timesteps_so_far + seg.total_timestep
            /\ LastRow'.total_steps =
                (iters_so_far + 1) * timesteps_per_batch]_vars
    /\ [][(pc = "log" /\ learn_calls >= 2 /\ train_csv # <<>>) =>
            /\ LastRow'.epoch = LastRow.epoch + 1
            /\ LastRow'.total_steps = LastRow.total_steps + seg.total_timestep
            /\ LastRow'.epoch >= iters_so_far + 1
            /\ LastRow'.total_steps >=
                timesteps_so_far + seg.total_timestep]_vars
    /\ [][(pc = "while" /\ pc' = "idle" /\ timesteps_per_batch >= 1) =>
            /\ timesteps_so_far = call_env_steps
            /\ call_env_steps >= total_timesteps]_vars

\* the second call, with a budget of 2 in batches of 1, has logged its
\* first iteration after a first call of two iterations
C23_Witness ==
    /\ learn_calls = 2
    /\ pc = "increment"
    /\ timesteps_per_batch = 1
    /\ total_timesteps = 2
    /\ iters_so_far = 0
    /\ timesteps_so_far = 0
    /\ self_iters_so_far = 3
    /\ self_timesteps_so_far = 3
    /\ LastRow.epoch = 3
    /\ LastRow.total_steps = 3

====
